---- MODULE Spec2Model ----
(***************************************************************************)
(* DebInstaller (src/unnamed/part_000, src/src/debinstaller.h): the        *)
(* controller object living on the GUI thread, the preflight workers that  *)
(* QtConcurrent::run starts on pool threads, the QFutureWatcher that       *)
(* delivers a worker's result back to the GUI thread, and the QProcess     *)
(* that supervises the "dpkg -i" child.                                    *)
(*                                                                         *)
(* Strings are sequences of tokens.  A path is a sequence such as          *)
(* <<"file://", "/cwd/", "a.deb">>; the log text m_statusDetails is the    *)
(* sequence of the pieces appended to it.                                  *)
(***************************************************************************)
EXTENDS Integers, Sequences, FiniteSets, TLC

(***************************************************************************)
(* Bounds of the model.                                                    *)
(***************************************************************************)
\* preflight workers alive at the same time (thread-pool tasks not yet over)
MaxFutures == 2
\* chunks one install child writes to its pipes before it exits
MaxChunks == 2

(***************************************************************************)
(* The files of the environment and the strings naming them.               *)
(***************************************************************************)
Scheme == "file://"
Cwd == "/cwd/"
Files == {"a.deb", "b.deb", "c.deb", "n.txt"}
EmptyString == << >>

\* The forms in which a caller can name a file, and the empty string.
FileNameArgs ==
    {EmptyString}
      \cup {<<f>> : f \in Files}
      \cup {<<Cwd, f>> : f \in Files}
      \cup {<<Scheme, Cwd, f>> : f \in Files}

DebMimeType == "application/vnd.debian.binary-package"

\* QString::remove(QString): every occurrence of the token is taken out.
RECURSIVE Remove(_, _)
Remove(s, tok) ==
    IF s = << >> THEN << >>
    ELSE IF Head(s) = tok THEN Remove(Tail(s), tok)
    ELSE <<Head(s)>> \o Remove(Tail(s), tok)

\* QFileInfo::absoluteFilePath(): a relative path is resolved against the
\* working directory, an absolute one is kept.
AbsoluteFilePath(p) ==
    IF p # << >> /\ Head(p) = Cwd THEN p ELSE <<Cwd>> \o p

\* QMimeDatabase().mimeTypeForFile(path).name(): sniffed from the content of
\* the file the path names.
MimeTypeForFile(p) ==
    IF Len(p) = 2 /\ p[1] = Cwd /\ p[2] \in {"a.deb", "b.deb", "c.deb"}
    THEN DebMimeType
    ELSE IF Len(p) = 2 /\ p[1] = Cwd /\ p[2] = "n.txt" THEN "text/plain"
    ELSE "application/octet-stream"

\* What "dpkg -I <file>" finds in the archive: c.deb is a corrupted archive
\* (dpkg exits non-zero), the others carry a control file.
DpkgInfoOk(p) == Len(p) = 2 /\ p[2] \in {"a.deb", "b.deb"}
ControlPackage(p) ==
    IF ~DpkgInfoOk(p) THEN ""
    ELSE IF p[2] = "a.deb" THEN "foo" ELSE "bar"

\* The outcomes of one "dpkg --dry-run -i <file>" run under runDpkgCommand:
\* exit 0; a non-zero exit whose standard output names no keyword, a
\* dependency keyword, the conflict keyword or both; a non-zero exit whose
\* standard error, which runDpkgCommand does not read, names a dependency
\* keyword or the conflict keyword while its standard output names none; no
\* exit within the five seconds.
TrialOutcomes ==
    {"ok", "fail", "failDep", "failConf", "failBoth", "failDepErr", "failConfErr",
     "timeout"}

\* The dry run failed and what it wrote, on either channel, names a
\* dependency keyword; the same for the conflict keyword.
DependencyDiagnostic(out) == out \in {"failDep", "failBoth", "failDepErr"}
ConflictDiagnostic(out) == out \in {"failConf", "failBoth", "failConfErr"}

\* The packages the APT cache opened by the constructor lists as installed,
\* and the version it gives for them.
CacheInstalled == {"foo"}
CacheVersion(pkg) == "1.0"

\* The dpkg query of parseDebFile that does not end within the five seconds:
\* none of them, the first one ("dpkg -I <file>"), or the one for the
\* Package field.
ParseTimeouts == {"none", "info", "field"}

(***************************************************************************)
(* State.                                                                  *)
(***************************************************************************)
VARIABLES
    \* fields of DebInstaller (debinstaller.h:134-157)
    m_aptInitialized,
    m_fileName, m_isValid, m_canInstall,
    m_packageName, m_isInstalled, m_installedVersion,
    m_preInstallMessage, m_status, m_statusMessage, m_statusDetails,
    \* m_dependencyWatcher: FALSE is nullptr; watched is the future the
    \* watcher was last given; unwatched counts, per position of the worker,
    \* the futures the watcher has left and whose workers still run
    m_dependencyWatcher, watched, unwatched,
    \* m_installProcess: the QProcess state, what the child has written to
    \* its two pipes and QProcess has not read yet, the number of chunks the
    \* child has written, the number of "dpkg -i" children alive, and the
    \* file named in the arguments the last child was started with
    procState, pipeOut, pipeErr, written, children, arguments,
    \* the handler that ran last, with its arguments, and the signals it
    \* emitted, in order
    op, signals

ctrlVars ==
    <<m_aptInitialized, m_fileName, m_isValid, m_canInstall,
      m_packageName, m_isInstalled, m_installedVersion, m_preInstallMessage>>
sessionVars == <<m_status, m_statusMessage, m_statusDetails>>
watcherVars == <<m_dependencyWatcher, watched, unwatched>>
procVars == <<procState, pipeOut, pipeErr, written, children, arguments>>
vars == <<ctrlVars, sessionVars, watcherVars, procVars, op, signals>>

\* Where a worker that is not over yet stands: not started, in the dry run
\* of checkDependencies, between the two checks, in the dry run of
\* checkConflicts.
WorkerPcs == {"queued", "deps", "mid", "conf"}

\* A future: where its worker stands (pc; "none" when there is no future,
\* "finished" when the worker is over, "delivered" once the watcher has
\* reported it), the lambda's return value once it is over (result), whether
\* one of its dry runs ran into the timeout (timedOut), and whether a later
\* selection has started a worker of its own since (stale).  For the
\* properties it also keeps the value m_fileName had when setFileName
\* started the worker (launchedFor), whether one of its dry runs was given
\* another value of m_fileName (checkedOther), whether the dry run of one
\* of its checks failed with a diagnostic naming the keyword of that check
\* (keyword), and the check that made the lambda return false (failed).
NoFuture ==
    [pc |-> "none", result |-> FALSE, timedOut |-> FALSE, stale |-> FALSE,
     launchedFor |-> EmptyString, checkedOther |-> FALSE, keyword |-> FALSE,
     failed |-> "none"]

\* The record of the handler that ran last.
Op(name) == [name |-> name, fileName |-> << >>, exitCode |-> 0, exitStatus |-> ""]
OpSetFileName(fileName) == [Op("setFileName") EXCEPT !.fileName = fileName]
OpFinished(exitCode, exitStatus) ==
    [Op("onInstallFinished") EXCEPT !.exitCode = exitCode, !.exitStatus = exitStatus]

(***************************************************************************)
(* Construction.                                                           *)
(***************************************************************************)
\* initializeApt(): pkgInitConfig fails, the cache cannot be opened, or
\* both succeed; a failure leaves its text in m_statusDetails.
AptOutcomes == {"ok", "configFailed", "openFailed"}

Init ==
    \E apt \in AptOutcomes :
      /\ m_aptInitialized = (apt = "ok")
      /\ m_statusDetails =
            (IF apt = "configFailed" THEN <<"Failed to initialize APT configuration">>
             ELSE IF apt = "openFailed" THEN <<"Failed to open APT cache">>
             ELSE << >>)
      /\ m_fileName = EmptyString
      /\ m_isValid = FALSE
      /\ m_canInstall = FALSE
      /\ m_packageName = ""
      /\ m_isInstalled = FALSE
      /\ m_installedVersion = ""
      /\ m_preInstallMessage = ""
      /\ m_status = "Begin"
      /\ m_statusMessage = ""
      /\ m_dependencyWatcher = FALSE
      /\ watched = NoFuture
      /\ unwatched = [pc \in WorkerPcs |-> 0]
      /\ procState = "NotRunning"
      /\ pipeOut = << >>
      /\ pipeErr = << >>
      /\ written = 0
      /\ children = 0
      /\ arguments = EmptyString
      /\ op = Op("constructor")
      /\ signals = (IF apt = "ok" THEN << >> ELSE <<"statusDetailsTextChanged">>)

(***************************************************************************)
(* Archive selection: setFileName and what it calls.                       *)
(***************************************************************************)
\* runDpkgCommand(): TRUE iff dpkg exited within the five seconds (timely)
\* and its exit code is 0 (exitOk).
runDpkgCommand(timely, exitOk) == timely /\ exitOk

\* parseDebFile() for the archive at path, with the query named by timeout
\* running out of time.  The result is the return value and the new
\* m_packageName: an early return leaves the field as it was.
parseDebFile(path, timeout) ==
    IF ~runDpkgCommand(timeout # "info", DpkgInfoOk(path))
    THEN [ok |-> FALSE, packageName |-> m_packageName]
    ELSE LET name == IF runDpkgCommand(timeout # "field", DpkgInfoOk(path))
                     THEN ControlPackage(path) ELSE ""
         IN  [ok |-> name # "", packageName |-> name]

MetadataSignals ==
    <<"isInstalledChanged", "installedVersionChanged", "packageNameChanged",
      "versionChanged", "maintainerChanged", "descriptionChanged",
      "homePageChanged", "installedSizeChanged">>

\* updatePackageInfo() for the package name just parsed: the new
\* m_isInstalled and m_installedVersion and the signals emitted.
updatePackageInfo(packageName) ==
    IF ~m_aptInitialized \/ packageName = ""
    THEN [isInstalled |-> FALSE, installedVersion |-> "", emitted |-> << >>]
    ELSE IF packageName \notin CacheInstalled
    THEN [isInstalled |-> FALSE, installedVersion |-> "", emitted |-> MetadataSignals]
    ELSE [isInstalled |-> TRUE, installedVersion |-> CacheVersion(packageName),
          emitted |-> MetadataSignals]

\* The guard of setFileName: nothing happens for an empty argument or one
\* equal to the stored file name.
SetFileNameUnchanged(fileName) == fileName = EmptyString \/ m_fileName = fileName

\* The workers that are not over.
RECURSIVE Sum(_, _)
Sum(f, dom) ==
    IF dom = {} THEN 0
    ELSE LET x == CHOOSE y \in dom : TRUE IN f[x] + Sum(f, dom \ {x})
LiveWorkers == (IF watched.pc \in WorkerPcs THEN 1 ELSE 0) + Sum(unwatched, WorkerPcs)

\* QtConcurrent::run(lambda): a new future, its worker not started yet.
NewFuture == [NoFuture EXCEPT !.pc = "queued"]

\* setFuture skipped while the watched future is not over: the new future
\* runs unwatched and the watcher goes on waiting for the old one.
SetFutureUnlessRunning(old, future) ==
    IF old.pc \in WorkerPcs
    THEN /\ watched' = old
         /\ unwatched' = [unwatched EXCEPT ![future.pc] = @ + 1]
    ELSE /\ watched' = future
         /\ UNCHANGED unwatched

\* QFutureWatcher::setFuture(future), old being the future watched so far:
\* the watcher leaves old (a pending finished event of old is removed) and
\* watches future.  The worker of old, if it is not over, runs on unwatched.
SetFuture(old, future) ==
    /\ watched' = future
    /\ unwatched' = IF old.pc \in WorkerPcs
                    THEN [unwatched EXCEPT ![old.pc] = @ + 1]
                    ELSE unwatched

\* The reset skipped: a new selection keeps the verdict of the one before.
ResetCanInstallSkipped == m_canInstall

\* The value setFileName gives m_canInstall when it resets the state for a
\* new selection.
ResetCanInstall == FALSE

SetFileName(fileName, timeout) ==
    LET newPath == Remove(fileName, Scheme)
        absolute == AbsoluteFilePath(newPath)
        mimeType == MimeTypeForFile(absolute)
    IN
    /\ op' = OpSetFileName(fileName)
    /\ UNCHANGED <<m_aptInitialized, sessionVars, procVars>>
    /\ IF SetFileNameUnchanged(fileName)
       THEN /\ signals' = << >>
            /\ UNCHANGED <<m_fileName, m_isValid, m_canInstall, m_packageName,
                           m_isInstalled, m_installedVersion,
                           m_preInstallMessage, watcherVars>>
       ELSE IF mimeType # DebMimeType
       THEN /\ m_preInstallMessage' = "Error: Not a valid Debian package"
            /\ signals' = <<"preInstallMessageChanged">>
            /\ UNCHANGED <<m_fileName, m_isValid, m_canInstall, m_packageName,
                           m_isInstalled, m_installedVersion, watcherVars>>
       ELSE   LET parsed == parseDebFile(absolute, timeout)
                  info == updatePackageInfo(parsed.packageName)
              IN
              /\ m_fileName' = absolute
              /\ m_canInstall' = ResetCanInstall
              /\ m_isValid' = parsed.ok
              /\ m_packageName' = parsed.packageName
              /\ IF parsed.ok
                 THEN /\ LiveWorkers < MaxFutures
                      /\ m_preInstallMessage' = ""
                      /\ m_isInstalled' = info.isInstalled
                      /\ m_installedVersion' = info.installedVersion
                      /\ m_dependencyWatcher' = TRUE
                      /\ SetFuture([watched EXCEPT !.stale = TRUE],
                                   [NewFuture EXCEPT !.launchedFor = absolute])
                      /\ signals' = <<"isValidChanged">> \o info.emitted
                                      \o <<"fileNameChanged">>
                 ELSE /\ m_preInstallMessage' = "Error: Invalid or corrupted package"
                      /\ signals' = <<"isValidChanged", "preInstallMessageChanged",
                                      "fileNameChanged">>
                      /\ UNCHANGED <<m_isInstalled, m_installedVersion, watcherVars>>

(***************************************************************************)
(* The preflight worker: the lambda given to QtConcurrent::run, on a pool  *)
(* thread.  It reads m_fileName and writes m_preInstallMessage while the   *)
(* GUI thread runs, so each access is a step of its own.                   *)
(***************************************************************************)
\* checkDependencies() on the outcome of its dry run.
checkDependencies(out) ==
    IF out = "ok" THEN TRUE
    ELSE IF out \in {"failDep", "failBoth"} THEN FALSE
    ELSE TRUE

\* checkConflicts() on the outcome of its dry run.
checkConflicts(out) ==
    IF out = "ok" THEN FALSE
    ELSE IF out \in {"failConf", "failBoth"} THEN TRUE
    ELSE FALSE

\* checkBreaksSystem().
checkBreaksSystem == FALSE

\* The workers: the one of the watched future and those of unwatched ones.
Workers == {"watched", "unwatched"}

HasWorker(who, pc) ==
    IF who = "watched" THEN watched.pc = pc ELSE unwatched[pc] > 0

\* A worker reads m_fileName for the arguments of its dry run and goes from
\* one position to the next.
WorkerReads(who, from, to) ==
    IF who = "watched"
    THEN /\ watched' = [watched EXCEPT
                            !.pc = to,
                            !.checkedOther = @ \/ m_fileName # watched.launchedFor]
         /\ UNCHANGED unwatched
    ELSE /\ unwatched' = [unwatched EXCEPT ![from] = @ - 1, ![to] = @ + 1]
         /\ UNCHANGED watched

\* A worker goes from one position to the next, its dry run having ended.
WorkerMoves(who, from, to, timedOut, keyword) ==
    IF who = "watched"
    THEN /\ watched' = [watched EXCEPT !.pc = to, !.timedOut = @ \/ timedOut,
                                       !.keyword = @ \/ keyword]
         /\ UNCHANGED unwatched
    ELSE /\ unwatched' = [unwatched EXCEPT ![from] = @ - 1, ![to] = @ + 1]
         /\ UNCHANGED watched

\* The lambda returns result: the future is over.  The watcher hears of it
\* only if it watches this future.
FutureOver(who, from, result, timedOut, keyword, failed) ==
    IF who = "watched"
    THEN /\ watched' = [watched EXCEPT !.pc = "finished", !.result = result,
                                       !.timedOut = @ \/ timedOut,
                                       !.keyword = @ \/ keyword,
                                       !.failed = failed]
         /\ UNCHANGED unwatched
    ELSE /\ unwatched' = [unwatched EXCEPT ![from] = @ - 1]
         /\ UNCHANGED watched

WorkerSteps == UNCHANGED <<m_aptInitialized, m_fileName, m_isValid, m_canInstall,
                           m_packageName, m_isInstalled, m_installedVersion,
                           sessionVars, m_dependencyWatcher, procVars>>

\* checkDependencies() starts its dry run on the file m_fileName names now.
WorkerStartDependencies(who) ==
    /\ HasWorker(who, "queued")
    /\ WorkerReads(who, "queued", "deps")
    /\ op' = [Op("workerStartDependencies") EXCEPT !.fileName = m_fileName]
    /\ signals' = << >>
    /\ UNCHANGED m_preInstallMessage
    /\ WorkerSteps

\* The dry run of checkDependencies() ends; a FALSE result ends the lambda.
WorkerEndDependencies(who, out) ==
    /\ HasWorker(who, "deps")
    /\ IF checkDependencies(out)
       THEN /\ WorkerMoves(who, "deps", "mid", out = "timeout",
                           DependencyDiagnostic(out))
            /\ UNCHANGED m_preInstallMessage
       ELSE /\ m_preInstallMessage' = "Error: Unmet dependencies"
            /\ FutureOver(who, "deps", FALSE, out = "timeout",
                          DependencyDiagnostic(out), "dependencies")
    /\ op' = Op("workerEndDependencies")
    /\ signals' = << >>
    /\ WorkerSteps

\* checkConflicts() starts its dry run on the file m_fileName names now.
WorkerStartConflicts(who) ==
    /\ HasWorker(who, "mid")
    /\ WorkerReads(who, "mid", "conf")
    /\ op' = [Op("workerStartConflicts") EXCEPT !.fileName = m_fileName]
    /\ signals' = << >>
    /\ UNCHANGED m_preInstallMessage
    /\ WorkerSteps

\* The dry run of checkConflicts() ends, and with it the lambda.
WorkerEndConflicts(who, out) ==
    /\ HasWorker(who, "conf")
    /\ IF checkConflicts(out)
       THEN m_preInstallMessage' = "Error: Package conflicts"
       ELSE UNCHANGED m_preInstallMessage
    /\ FutureOver(who, "conf", ~checkConflicts(out) /\ ~checkBreaksSystem,
                  out = "timeout", ConflictDiagnostic(out),
                  IF checkConflicts(out) THEN "conflicts" ELSE "none")
    /\ op' = Op("workerEndConflicts")
    /\ signals' = << >>
    /\ WorkerSteps

\* The lambda connected to QFutureWatcher::finished, on the GUI thread, once
\* for the future the watcher watches.
WatcherFinished ==
    /\ watched.pc = "finished"
    /\ m_canInstall' = watched.result
    /\ m_preInstallMessage' =
          (IF ~watched.result /\ m_preInstallMessage = ""
           THEN "Error: Cannot satisfy dependencies"
           ELSE m_preInstallMessage)
    /\ watched' = [watched EXCEPT !.pc = "delivered"]
    /\ op' = Op("watcherFinished")
    /\ signals' = <<"canInstallChanged", "preInstallMessageChanged">>
    /\ UNCHANGED <<m_aptInitialized, m_fileName, m_isValid, m_packageName,
                   m_isInstalled, m_installedVersion, sessionVars,
                   m_dependencyWatcher, unwatched, procVars>>

(***************************************************************************)
(* The install session: install(), the QProcess and its two slots.         *)
(***************************************************************************)
ExitCodes == {0, 2}
ExitStatuses == {"NormalExit", "CrashExit"}

\* setStatus(status): the signal it emits.
setStatus(status) == IF m_status # status THEN <<"statusChanged">> ELSE << >>

\* install() guarded by validity alone.
InstallGuardValidOnly == m_isValid

\* The guard of install().
InstallGuard == m_isValid /\ m_canInstall

\* A child started by every call, whatever the state of the one before (a
\* process object per call, or a detached start).
QProcessStartAlways ==
    /\ procState' = "Starting"
    /\ pipeOut' = << >>
    /\ pipeErr' = << >>
    /\ written' = 0
    /\ children' = children + 1
    /\ arguments' = m_fileName

\* m_installProcess->start("dpkg", {"-i", m_fileName}): QProcess starts a
\* child only from NotRunning; otherwise it warns and returns.
QProcessStart ==
    IF procState # "NotRunning"
    THEN UNCHANGED procVars
    ELSE /\ procState' = "Starting"
         /\ pipeOut' = << >>
         /\ pipeErr' = << >>
         /\ written' = 0
         /\ children' = children + 1
         /\ arguments' = m_fileName

Install ==
    /\ op' = Op("install")
    /\ UNCHANGED <<ctrlVars, watcherVars>>
    /\ IF ~InstallGuard
       THEN /\ signals' = << >>
            /\ UNCHANGED <<sessionVars, procVars>>
       ELSE /\ m_status' = "Installing"
            /\ m_statusMessage' = "Starting installation"
            /\ m_statusDetails' = << >>
            /\ signals' = setStatus("Installing")
                            \o <<"statusMessageChanged", "statusDetailsTextChanged",
                                 "requestSwitchToInstallPage">>
            /\ QProcessStart

\* onInstallOutput() with the given contents of the QProcess read buffers:
\* the new log text and the signals emitted.
onInstallOutput(details, stdOut, stdErr) ==
    [details |-> details \o stdOut \o stdErr,
     emitted |-> (IF stdOut # << >> THEN <<"statusDetailsTextChanged">> ELSE << >>)
                   \o (IF stdErr # << >> THEN <<"statusDetailsTextChanged">> ELSE << >>)]

\* onInstallFinished deciding on the exit code alone.
onInstallFinishedByExitCode(details, exitCode, exitStatus, stdOut, stdErr) ==
    IF exitCode = 0
    THEN [status |-> "Succeeded", message |-> "Installation successful",
          isInstalled |-> TRUE, details |-> details,
          emitted |-> setStatus("Succeeded")
                        \o <<"isInstalledChanged", "statusMessageChanged">>]
    ELSE [status |-> "Error", message |-> "Installation failed",
          isInstalled |-> m_isInstalled, details |-> details,
          emitted |-> setStatus("Error") \o <<"statusMessageChanged">>]

\* onInstallFinished going back to Begin after a failure.
onInstallFinishedResets(details, exitCode, exitStatus, stdOut, stdErr) ==
    IF exitStatus = "NormalExit" /\ exitCode = 0
    THEN [status |-> "Succeeded", message |-> "Installation successful",
          isInstalled |-> TRUE, details |-> details,
          emitted |-> setStatus("Succeeded")
                        \o <<"isInstalledChanged", "statusMessageChanged">>]
    ELSE [status |-> "Begin", message |-> "Installation failed",
          isInstalled |-> m_isInstalled, details |-> details,
          emitted |-> setStatus("Begin") \o <<"statusMessageChanged">>]

\* onInstallFinished(exitCode, exitStatus) with the log text and the contents
\* of the QProcess read buffers at the time of the call.
onInstallFinished(details, exitCode, exitStatus, stdOut, stdErr) ==
    IF exitStatus = "NormalExit" /\ exitCode = 0
    THEN [status |-> "Succeeded", message |-> "Installation successful",
          isInstalled |-> TRUE, details |-> details,
          emitted |-> setStatus("Succeeded")
                        \o <<"isInstalledChanged", "statusMessageChanged">>]
    ELSE LET errorOutput == IF stdErr # << >> THEN stdErr ELSE stdOut
         IN  [status |-> "Error", message |-> "Installation failed",
              isInstalled |-> m_isInstalled,
              details |-> IF errorOutput # << >>
                          THEN details \o <<"Error:">> \o errorOutput
                          ELSE details,
              emitted |-> setStatus("Error")
                            \o (IF errorOutput # << >>
                                THEN <<"statusDetailsTextChanged">> ELSE << >>)
                            \o <<"statusMessageChanged">>]

\* The chunk the child writes as its n-th, on channel ch.
Chunk(ch, n) == ch \o ToString(n)

\* The child is running: QProcess goes from Starting to Running.
ProcessStarted ==
    /\ procState = "Starting"
    /\ procState' = "Running"
    /\ op' = Op("child")
    /\ signals' = << >>
    /\ UNCHANGED <<ctrlVars, sessionVars, watcherVars, pipeOut, pipeErr, written,
                   children, arguments>>

\* The child could not be started: QProcess emits errorOccurred, which no
\* slot is connected to, and is NotRunning again.
ProcessFailedToStart ==
    /\ procState = "Starting"
    /\ procState' = "NotRunning"
    /\ children' = children - 1
    /\ op' = Op("child")
    /\ signals' = << >>
    /\ UNCHANGED <<ctrlVars, sessionVars, watcherVars, pipeOut, pipeErr, written,
                   arguments>>

\* The child writes a chunk to its standard output or its standard error.
ChildWrite(ch) ==
    /\ procState = "Running"
    /\ written < MaxChunks
    /\ written' = written + 1
    /\ IF ch = "out"
       THEN pipeOut' = Append(pipeOut, Chunk(ch, written + 1)) /\ UNCHANGED pipeErr
       ELSE pipeErr' = Append(pipeErr, Chunk(ch, written + 1)) /\ UNCHANGED pipeOut
    /\ op' = Op("child")
    /\ signals' = << >>
    /\ UNCHANGED <<ctrlVars, sessionVars, watcherVars, procState, children,
                   arguments>>

\* QProcess finds data on the child's standard output, takes it into its
\* read buffer and emits readyReadStandardOutput: onInstallOutput runs.
ReadyReadStandardOutput ==
    /\ procState = "Running"
    /\ pipeOut # << >>
    /\ LET r == onInstallOutput(m_statusDetails, pipeOut, << >>)
       IN  /\ m_statusDetails' = r.details
           /\ signals' = r.emitted
    /\ pipeOut' = << >>
    /\ op' = Op("onInstallOutput")
    /\ UNCHANGED <<ctrlVars, m_status, m_statusMessage, watcherVars, procState,
                   pipeErr, written, children, arguments>>

\* The same for the child's standard error.
ReadyReadStandardError ==
    /\ procState = "Running"
    /\ pipeErr # << >>
    /\ LET r == onInstallOutput(m_statusDetails, << >>, pipeErr)
       IN  /\ m_statusDetails' = r.details
           /\ signals' = r.emitted
    /\ pipeErr' = << >>
    /\ op' = Op("onInstallOutput")
    /\ UNCHANGED <<ctrlVars, m_status, m_statusMessage, watcherVars, procState,
                   pipeOut, written, children, arguments>>

\* The child is gone.  QProcess first takes what is left in the two pipes,
\* emitting the ready-read signal of each (onInstallOutput runs and empties
\* the read buffers), then is NotRunning and emits finished:
\* onInstallFinished runs.
ProcessFinished(exitCode, exitStatus) ==
    /\ procState = "Running"
    /\ LET r1 == IF pipeOut # << >>
                 THEN onInstallOutput(m_statusDetails, pipeOut, << >>)
                 ELSE [details |-> m_statusDetails, emitted |-> << >>]
           r2 == IF pipeErr # << >>
                 THEN onInstallOutput(r1.details, << >>, pipeErr)
                 ELSE [details |-> r1.details, emitted |-> << >>]
           f == onInstallFinished(r2.details, exitCode, exitStatus, << >>, << >>)
       IN  /\ m_status' = f.status
           /\ m_statusMessage' = f.message
           /\ m_isInstalled' = f.isInstalled
           /\ m_statusDetails' = f.details
           /\ signals' = r1.emitted \o r2.emitted \o f.emitted
    /\ procState' = "NotRunning"
    /\ pipeOut' = << >>
    /\ pipeErr' = << >>
    /\ children' = children - 1
    /\ op' = OpFinished(exitCode, exitStatus)
    /\ UNCHANGED <<m_aptInitialized, m_fileName, m_isValid,
                   m_canInstall, m_packageName, m_installedVersion,
                   m_preInstallMessage, watcherVars, written, arguments>>

(***************************************************************************)
(* The system.                                                             *)
(***************************************************************************)
\* The GUI thread selects archives, the pool threads run the preflight
\* workers, the watcher delivers: with the file names given to setFileName
\* drawn from args, the dpkg queries of parseDebFile running out of time as
\* timeouts allows, and the dry runs ending as outcomes allows.
NextSelection(args, timeouts, outcomes) ==
    \/ \E fileName \in args, timeout \in timeouts : SetFileName(fileName, timeout)
    \/ \E who \in Workers : WorkerStartDependencies(who)
    \/ \E who \in Workers, out \in outcomes : WorkerEndDependencies(who, out)
    \/ \E who \in Workers : WorkerStartConflicts(who)
    \/ \E who \in Workers, out \in outcomes : WorkerEndConflicts(who, out)
    \/ WatcherFinished

\* The caller invokes install(), the child runs, QProcess reports.
NextSession ==
    \/ Install
    \/ ProcessStarted
    \/ ProcessFailedToStart
    \/ \E ch \in {"out", "err"} : ChildWrite(ch)
    \/ ReadyReadStandardOutput
    \/ ReadyReadStandardError
    \/ \E exitCode \in ExitCodes, exitStatus \in ExitStatuses :
         ProcessFinished(exitCode, exitStatus)

\* The whole system.
Next ==
    \/ NextSelection(FileNameArgs, ParseTimeouts, TrialOutcomes)
    \/ NextSession

Spec == Init /\ [][Next]_vars

\* The state space of Spec is the product of the selection and preflight
\* side with the install session side.  The properties are checked under
\* two specifications that each keep one side whole and narrow the inputs of
\* the other.

\* Archive selection and preflight in full, with a caller that does not
\* invoke install().
NextPreflight == NextSelection(FileNameArgs, ParseTimeouts, TrialOutcomes)

SpecPreflight == Init /\ [][NextPreflight]_vars

\* The install session in full, with a caller that selects archives by their
\* absolute path, dpkg queries that end in time, and dry runs that either
\* pass or report an unmet dependency.
SessionArgs == {<<Cwd, "a.deb">>, <<Cwd, "c.deb">>}
SessionOutcomes == {"ok", "failDep"}

NextInstall ==
    \/ NextSelection(SessionArgs, {"none"}, SessionOutcomes)
    \/ NextSession

SpecSession == Init /\ [][NextInstall]_vars

\* Selection, preflight and install with a caller that moves between two
\* valid archives and a corrupted one, given by their absolute path, and a
\* child that writes nothing.
ReselectArgs == {<<Cwd, "a.deb">>, <<Cwd, "b.deb">>, <<Cwd, "c.deb">>}

NextReselect ==
    \/ NextSelection(ReselectArgs, {"none"}, SessionOutcomes)
    \/ Install
    \/ ProcessStarted
    \/ ProcessFailedToStart
    \/ \E exitCode \in ExitCodes, exitStatus \in ExitStatuses :
         ProcessFinished(exitCode, exitStatus)

SpecReselect == Init /\ [][NextReselect]_vars

(***************************************************************************)
(* Properties.                                                             *)
(***************************************************************************)
Range(seq) == {seq[k] : k \in 1..Len(seq)}
Occurrences(seq, x) == Cardinality({k \in 1..Len(seq) : seq[k] = x})
stateVars == <<ctrlVars, sessionVars, watcherVars, procVars>>
LiveUnwatched == Sum(unwatched, WorkerPcs)

\* C1: a call of install() made while valid is false or canInstall is false
\* changes no field of the controller, starts no child and emits no signal.
C1_InstallRefusedChangesNothing ==
    [][(op'.name = "install" /\ (~m_isValid \/ ~m_canInstall))
          => (UNCHANGED stateVars /\ signals' = << >>)]_vars

\* install() was called on a valid archive whose preflight does not allow
\* the install, after an earlier session had failed and left its log.
C1_Witness ==
    /\ op.name = "install"
    /\ m_isValid /\ ~m_canInstall
    /\ m_status = "Error"
    /\ m_statusDetails # << >>

\* C2: the watcher's handler only ever reports the future started by the most
\* recent successful selection, and canInstall becomes that future's
\* result; canInstall changes in no other way than by that handler and by
\* setFileName, which sets it to false.
C2_OnlyLatestPreflightApplied ==
    [][/\ (op'.name = "watcherFinished"
             => /\ watched.pc = "finished"
                /\ ~watched.stale
                /\ m_canInstall' = watched.result)
       /\ (m_canInstall' # m_canInstall
             => \/ op'.name = "watcherFinished"
                \/ op'.name = "setFileName" /\ ~m_canInstall')]_vars

\* The check of the newer archive has been reported and allows the install
\* while a worker of an earlier selection is still running.
C2_Witness ==
    /\ op.name = "watcherFinished"
    /\ m_canInstall
    /\ LiveUnwatched > 0

\* The MIME type setFileName finds for the argument of the call.
MimeOfArgument(fileName) ==
    MimeTypeForFile(AbsoluteFilePath(Remove(fileName, Scheme)))

\* C3: when setFileName returns from a call whose argument is a path that
\* does not name a Debian package by MIME type, valid is false.
C3_NotAPackageLeavesInvalid ==
    (/\ op.name = "setFileName"
     /\ op.fileName # EmptyString
     /\ MimeOfArgument(op.fileName) # DebMimeType)
       => ~m_isValid

\* C4: a call of setFileName with an empty argument, or one that directly
\* follows a call with the same argument which selected the current, valid
\* archive, changes no field of the controller, starts no worker and emits
\* no signal.
C4_RepeatedSelectionChangesNothing ==
    [][(/\ op'.name = "setFileName"
        /\ \/ op'.fileName = EmptyString
           \/ /\ op.name = "setFileName"
              /\ op'.fileName = op.fileName
              /\ m_isValid
              /\ m_fileName = AbsoluteFilePath(Remove(op.fileName, Scheme)))
          => (UNCHANGED stateVars /\ signals' = << >>)]_vars

\* C5: the status changes only from Begin to Installing and from Succeeded
\* or Error to Installing, by a call of install() that passes its guard, and
\* from Installing to Succeeded or Error, by onInstallFinished; and
\* onInstallFinished only ever runs while the status is Installing.
C5_StatusTransitions ==
    [][/\ (m_status' # m_status
             => \/ /\ m_status \in {"Begin", "Succeeded", "Error"}
                   /\ m_status' = "Installing"
                   /\ op'.name = "install"
                   /\ m_isValid /\ m_canInstall
                \/ /\ m_status = "Installing"
                   /\ m_status' \in {"Succeeded", "Error"}
                   /\ op'.name = "onInstallFinished")
       /\ (op'.name = "onInstallFinished" => m_status = "Installing")]_vars

\* A second session has been started after a first one succeeded: without
\* the APT cache only a succeeded session sets isInstalled.
C5_Witness ==
    /\ op.name = "install"
    /\ m_status = "Installing"
    /\ "statusChanged" \in Range(signals)
    /\ ~m_aptInitialized /\ m_isInstalled

\* C6: a call of install() made while the status is Installing changes
\* neither the log nor the status message, starts no child and emits no
\* signal.
C6_InstallWhileInstallingChangesNothing ==
    [][(op'.name = "install" /\ m_status = "Installing")
          => (UNCHANGED <<sessionVars, procVars>> /\ signals' = << >>)]_vars

\* C7: at most one "dpkg -i" child is alive.
C7_AtMostOneChild == children <= 1

\* install() has been called while the child of the session was running and
\* had written output.
C7_Witness ==
    /\ op.name = "install"
    /\ m_isValid /\ m_canInstall
    /\ procState = "Running"
    /\ written > 0
    /\ children = 1

\* C8: onInstallFinished sets the status to Succeeded and isInstalled to
\* true when the exit is normal with code 0; otherwise it sets the status to
\* Error and leaves isInstalled as it was; in both cases it emits
\* statusMessageChanged.
C8_ExitDecidesTerminalStatus ==
    [][op'.name = "onInstallFinished"
          => /\ IF op'.exitStatus = "NormalExit" /\ op'.exitCode = 0
                THEN m_status' = "Succeeded" /\ m_isInstalled'
                ELSE m_status' = "Error" /\ m_isInstalled' = m_isInstalled
             /\ "statusMessageChanged" \in Range(signals')]_vars

\* The child crashed with exit code 0 and the package is not shown as
\* installed.
C8_Witness ==
    /\ op.name = "onInstallFinished"
    /\ op.exitCode = 0 /\ op.exitStatus = "CrashExit"
    /\ m_status = "Error"
    /\ ~m_isInstalled

\* The chunks a child can write to its standard error.
ErrChunks == {Chunk("err", n) : n \in 1..MaxChunks}

\* C9: when a session has ended in Error and its child had written to its
\* standard error, the log holds the "Error:" marker exactly once, and
\* error text after it.
C9_FailedLogHasErrorMarkerOnce ==
    (/\ op.name = "onInstallFinished"
     /\ m_status = "Error"
     /\ Range(m_statusDetails) \cap ErrChunks # {})
       => /\ Occurrences(m_statusDetails, "Error:") = 1
          /\ \E i \in 1..Len(m_statusDetails), j \in 1..Len(m_statusDetails) :
               /\ i < j
               /\ m_statusDetails[i] = "Error:"
               /\ m_statusDetails[j] \in ErrChunks

\* C10: when the result of a preflight one of whose dry runs ran into the
\* timeout is reported, canInstall is not true.
C10_TimeoutIsNotAPass ==
    (op.name = "watcherFinished" /\ watched.timedOut) => ~m_canInstall

\* C11: when the result of the preflight launched for the selected archive is
\* reported, canInstall is true exactly if no dry run of that preflight failed
\* with a diagnostic naming the keyword of its check (a dependency keyword for
\* the dependency check, the conflict keyword for the conflict check), the
\* system-breakage check being always negative.
C11_CanInstallIsTheCombinedVerdict ==
    (op.name = "watcherFinished" /\ watched.launchedFor = m_fileName)
       => (m_canInstall = (~watched.keyword /\ ~checkBreaksSystem))

\* C12: while the selected archive is one whose extraction fails (the MIME
\* check passed, "dpkg -I" rejects the file), valid is false and canInstall
\* is false, whatever preflight completes in the meantime.
C12_ExtractionFailureStaysInadmissible ==
    (m_fileName # EmptyString /\ ~DpkgInfoOk(m_fileName))
       => (~m_isValid /\ ~m_canInstall)

\* C13: when a call of setFileName has changed the selected archive, the
\* package name is the new archive's or empty, the installed state and the
\* installed version are those the cache gives for the new archive's package
\* or the defaults, canInstall is false and the message is empty or the one
\* about the new archive's extraction.
C13_SelectionLeavesNoStaleValue ==
    [][(op'.name = "setFileName" /\ m_fileName' # m_fileName)
          => /\ m_packageName' \in {"", ControlPackage(m_fileName')}
             /\ m_isInstalled' => ControlPackage(m_fileName') \in CacheInstalled
             /\ m_installedVersion' # "" => ControlPackage(m_fileName') \in CacheInstalled
             /\ ~m_canInstall'
             /\ m_preInstallMessage' \in {"", "Error: Invalid or corrupted package"}]_vars

\* The steps of the preflight workers.
WorkerOps ==
    {"workerStartDependencies", "workerEndDependencies",
     "workerStartConflicts", "workerEndConflicts"}

\* C14: a step of a preflight worker changes no field of the controller, and
\* the file name a worker's dry run is given is the one the controller held
\* when it started the worker: the worker reads no field the owner has
\* changed since.
C14_WorkerTouchesNoControllerField ==
    [][/\ op'.name \in WorkerOps => UNCHANGED ctrlVars
       /\ ~watched'.checkedOther]_vars

\* The message of the check that made a preflight fail.
FailureMessage(failed) ==
    IF failed = "dependencies" THEN "Error: Unmet dependencies"
    ELSE IF failed = "conflicts" THEN "Error: Package conflicts"
    ELSE "Error: Cannot satisfy dependencies"

\* C15: when the result of the preflight launched for the selected archive,
\* which is valid, is reported and it is false, the message shown is that of
\* the check of this preflight that failed first (the dependency check
\* before the conflict check), whatever another check has written since;
\* only the message of a rejected non-package selection may stand in its
\* place.
C15_FirstFailingCheckMessage ==
    (/\ op.name = "watcherFinished"
     /\ m_isValid
     /\ watched.launchedFor = m_fileName
     /\ ~m_canInstall)
       => m_preInstallMessage \in {FailureMessage(watched.failed),
                                   "Error: Not a valid Debian package"}

\* The install session with an environment that reports: a child that is
\* being started is eventually running or has failed to start, and a child
\* that runs eventually exits.
SpecSessionFair ==
    /\ SpecSession
    /\ WF_vars(ProcessStarted \/ ProcessFailedToStart)
    /\ WF_vars(\E exitCode \in ExitCodes, exitStatus \in ExitStatuses :
                 ProcessFinished(exitCode, exitStatus))

\* C16: a session whose status is Installing eventually has the status
\* Succeeded or Error, whatever the environment reports for its child, a
\* failure to start included.
C16_InstallingEndsInTerminalStatus ==
    (m_status = "Installing") ~> (m_status \in {"Succeeded", "Error"})

\* The two channels of the child.
Channels == {"out", "err"}

\* C17: while the status is Installing, every chunk the child has written is
\* either still in a pipe or in the log, the chunks of one channel stand in
\* the log once and in the order they were written, and a run of
\* onInstallOutput emits statusDetailsTextChanged.  (Across the two channels
\* the order is the one in which QProcess hands the data over.)
C17_LogIsTheDrainedChunks ==
    m_status = "Installing"
       => /\ \A n \in 1..written : \E ch \in Channels :
                Chunk(ch, n) \in Range(m_statusDetails) \cup Range(pipeOut)
                                   \cup Range(pipeErr)
          /\ \A i \in 1..Len(m_statusDetails), j \in 1..Len(m_statusDetails) :
                \A ch \in Channels, n \in 1..MaxChunks, k \in 1..MaxChunks :
                   (/\ i < j
                    /\ m_statusDetails[i] = Chunk(ch, n)
                    /\ m_statusDetails[j] = Chunk(ch, k)) => n < k
          /\ op.name = "onInstallOutput"
                => "statusDetailsTextChanged" \in Range(signals)

\* C18: whenever canInstall is true, preInstallMessage is empty.
C18_CanInstallMeansNoMessage ==
    m_canInstall => m_preInstallMessage = ""

\* C19: when onInstallFinished has set the status to Succeeded and
\* isInstalled to true, the selected archive is the one named in the
\* arguments of the child that exited, and the package name shown is that
\* archive's.
C19_SucceededMarksTheInstalledArchive ==
    (op.name = "onInstallFinished" /\ m_status = "Succeeded")
       => /\ m_fileName = arguments
          /\ m_packageName = ControlPackage(arguments)

\* C20: when a call of install() starts a child, the child is started for the
\* selected archive, the result last reported by the watcher is that of the
\* preflight launched by the selection of this archive, and every dry run of
\* that preflight was given this archive; and from the selection of a valid
\* archive until the result of its own preflight is reported canInstall is
\* false.
C20_InstallOnOwnVerdict ==
    [][/\ (op'.name = "install" /\ children' = children + 1)
             => /\ arguments' = m_fileName
                /\ watched.pc = "delivered"
                /\ watched.launchedFor = m_fileName
                /\ ~watched.checkedOther
                /\ watched.result
       /\ (/\ m_isValid'
           /\ watched'.launchedFor = m_fileName'
           /\ watched'.pc \in WorkerPcs \cup {"finished"})
             => ~m_canInstall']_vars

\* install() has started a child for b.deb, selected after a.deb, while the
\* worker of a.deb's preflight is still running.
C20_Witness ==
    /\ op.name = "install"
    /\ procState = "Starting"
    /\ arguments = <<Cwd, "b.deb">>
    /\ m_fileName = <<Cwd, "b.deb">>
    /\ LiveUnwatched > 0

====
